---- MODULE Spec2Model ----
(***************************************************************************)
(* StarWave: a particle cloud whose scale and rotation follow hand         *)
(* gestures.  Model of src/src/main.jsx (component ParticleGestureSystem): *)
(* the render tick `animate`, the tracker callback `hands.onResults`, the  *)
(* gesture start/stop effect and the pattern-update effect.                *)
(*                                                                         *)
(* Numbers.  The program computes in IEEE doubles.  Here every real is a   *)
(* fixed-point integer counting units of 1/One, and every arithmetic       *)
(* result is rounded to the nearest unit, as a double rounds to its        *)
(* nearest representable value.                                            *)
(***************************************************************************)
EXTENDS Integers, Sequences, FiniteSets, TLC

\* ------------------------------------------------------------ numbers

\* Units per 1.0 (the resolution of the number representation).
One == 10 ^ 4

\* The decimal n/d in units.
Dec(n, d) == (n * One) \div d

Abs(x) == IF x < 0 THEN -x ELSE x
Min(a, b) == IF a < b THEN a ELSE b
Max(a, b) == IF a > b THEN a ELSE b

\* n/d rounded to the nearest integer (d > 0).
RoundDiv(n, d) == (2 * n + d) \div (2 * d)

\* Product and quotient of two fixed-point numbers.
Mul(a, b) == RoundDiv(a * b, One)
Div(a, b) == RoundDiv(a * One, b)

RECURSIVE SqrtIn(_, _, _)
SqrtIn(n, lo, hi) ==
    IF lo >= hi THEN lo
    ELSE LET mid == (lo + hi + 1) \div 2
         IN  IF mid * mid <= n THEN SqrtIn(n, mid, hi) ELSE SqrtIn(n, lo, mid - 1)

\* Square root of the integer n, to the nearest integer.
Sqrt(n) ==
    LET r == SqrtIn(n, 0, 4 * One)
    IN  IF n - r * r > r THEN r + 1 ELSE r

\* Math.hypot on fixed-point arguments.
hypot(dx, dy, dz) == Sqrt(dx * dx + dy * dy + dz * dz)

\* Math.PI
PI == Dec(31416, 10000)

\* lerp with the weights swapped: a * t + b * (1 - t).
lerpSwapped(a, b, t) == RoundDiv(a * t + b * (One - t), One)

\* const lerp = (a, b, t) => a * (1 - t) + b * t;
lerp(a, b, t) == RoundDiv(a * (One - t) + b * t, One)

\* ------------------------------------------------------------ constants

PARTICLE_COUNT == 1

\* hands.onResults: the scale mapping
minNorm == Dec(5, 100)
maxNorm == Dec(12, 10)
minScale == Dec(2, 10)
maxScale == 3 * One
\* hands.onResults: the rotation mapping
maxRotY == RoundDiv(PI, 4)
maxRotX == RoundDiv(PI, 6)
FirstSmoothing == Dec(5, 100)
SteadySmoothingDirect == One
SteadySmoothing == Dec(2, 10)
\* animate: smoothing factors and the idle increment
ScaleAlphaTenfold == Dec(12, 10)
ScaleAlpha == Dec(12, 100)
PositionAlpha == Dec(8, 100)
RotationAlpha == Dec(1, 10)
IdleIncrement == Dec(1, 1000)

\* PATTERNS: the tags the control panel offers.
PATTERNS == {"heart", "cube", "sphere", "torus", "galaxy", "wave", "custom"}

\* ------------------------------------------------------------ bounds

\* How many events (ticks, frames, button presses) a run has.
MaxSteps == 6
\* How many hand frames a run of the scale mapping feeds.
MaxLog == 4

\* ------------------------------------------------------------ inputs

Vec(x, y, z) == [x |-> x, y |-> y, z |-> z]

\* The pattern buttons pressed in a run.
PatternInputs == {"sphere", "torus", "custom"}

\* What Math.random() returns, drawn from a small set.
RandomDraws == {0, Dec(1, 2)}

\* A hand: the landmarks the callback reads (0 wrist, 4 thumb tip, 8 index
\* tip, 9 middle-finger base).  Thumb and index tips are d apart, wrist and
\* middle-finger base are b apart, landmark 9 is at (ref.x, ref.y).
MkHand(d, b, ref) ==
    (0 :> Vec(ref.x, ref.y, b)) @@
    (4 :> Vec(Dec(1, 2), Dec(1, 2), 0)) @@
    (8 :> Vec(Dec(1, 2) + Mul(d, Dec(6, 10)), Dec(1, 2) + Mul(d, Dec(8, 10)), 0)) @@
    (9 :> Vec(ref.x, ref.y, 0))

\* The hands the tracker delivers: a closed pinch at the image centre, a
\* half-open pinch at the top right corner, a wide pinch at the lower left,
\* and a degenerate hand whose wrist and middle-finger base coincide.
HandSamples ==
    {<<Dec(1, 100), Dec(2, 10), [x |-> Dec(1, 2), y |-> Dec(1, 2)]>>,
     <<Dec(12, 100), Dec(2, 10), [x |-> One, y |-> 0]>>,
     <<Dec(3, 10), Dec(2, 10), [x |-> Dec(1, 4), y |-> Dec(3, 4)]>>,
     <<Dec(12, 100), 0, [x |-> One, y |-> 0]>>}

\* results.multiHandLandmarks: no hand, or one hand.
NoHandResults == << >>
HandResults == {<<MkHand(h[1], h[2], h[3])>> : h \in HandSamples}
Results == {NoHandResults} \cup HandResults

\* ------------------------------------------------------------ patterns

\* generateParticleData: the characteristic size of a pattern.
ShapeScale(pattern) ==
    IF pattern = "heart" \/ pattern = "cube" THEN 2 * One
    ELSE IF pattern = "custom" THEN 4 * One
    ELSE 3 * One

\* generateParticleData: the branch of switch (pattern) that handles a tag.
PatternRule(p) ==
    IF p \in {"sphere", "cube", "torus", "heart", "wave", "galaxy", "custom"}
    THEN p
    ELSE "default"

\* generateParticleData: the point the rules that do not read the particle
\* index yield when every Math.random() call returns r (r = 0 or r = 1/2).
PatternPoint(pattern, r) ==
    CASE pattern = "sphere" ->
           IF r = 0 THEN Vec(0, 0, -Dec(2754, 1000)) ELSE Vec(-Dec(285, 100), 0, 0)
      [] pattern = "cube" ->
           IF r = 0 THEN Vec(-Dec(204, 100), -Dec(204, 100), -Dec(204, 100)) ELSE Vec(0, 0, 0)
      [] pattern = "torus" ->
           IF r = 0 THEN Vec(Dec(21, 10), 0, 0) ELSE Vec(-Dec(14636, 10000), 0, 0)
      [] pattern = "heart" ->
           IF r = 0 THEN Vec(0, Dec(9, 10), -Dec(27, 100)) ELSE Vec(0, -Dec(21638, 10000), 0)

\* case 'wave': Math.ceil(Math.sqrt(count)), for the counts generated here.
GridSize(count) == IF count <= 1 THEN 1 ELSE IF count <= 4 THEN 2 ELSE 3

\* case 'wave': Math.sin(x * 1.5) * Math.cos(z * 1.5) * scale * 0.4 at the
\* grid coordinates x, z in {-3, 0}.
WaveBaseY(x, z) ==
    IF x = 0 THEN 0
    ELSE IF z = 0 THEN Dec(11730, 10000)
    ELSE -Dec(2473, 10000)

\* case 'wave': particle i of count.
WavePoint(i, count, r) ==
    LET scale == 3 * One
        gridSize == GridSize(count)
        x == Mul(Div((i % gridSize) * One, gridSize * One) - Dec(1, 2), scale) * 2
        z == Mul(Div((i \div gridSize) * One, gridSize * One) - Dec(1, 2), scale) * 2
        yOffset == Mul(Mul(r - Dec(1, 2), scale), Dec(2, 10))
    IN  Vec(x, WaveBaseY(x, z) + yOffset, z)

\* case 'galaxy': particle i lies on arm i % 3.
GalaxyPoint(i, r) ==
    IF r = 0 THEN Vec(-Dec(15, 100), -Dec(75, 1000), -Dec(15, 100))
    ELSE CASE i % 3 = 0 -> Vec(-Dec(182, 100), 0, Dec(109, 100))
           [] i % 3 = 1 -> Vec(-Dec(327, 10000), 0, -Dec(21211, 10000))
           [] OTHER -> Vec(Dec(18532, 10000), 0, Dec(10322, 10000))

\* pos.setFromSphericalCoords(1, phi, theta) with phi = Math.acos(-1 + (2 * i) / count)
\* and theta = Math.sqrt(count * Math.PI) * phi: the direction of particle i
\* in the two fallback rules (count <= 4).
FallbackDir(i, count) ==
    CASE i = 0 -> Vec(0, -One, 0)
      [] count = 2 /\ i = 1 -> Vec(-Dec(7144, 10000), 0, -Dec(6997, 10000))
      [] count = 3 /\ i = 1 -> Vec(-Dec(3824, 10000), -Dec(3333, 10000), Dec(8618, 10000))
      [] count = 3 /\ i = 2 -> Vec(-Dec(5611, 10000), Dec(3333, 10000), -Dec(7577, 10000))
      [] count = 4 /\ i = 1 -> Vec(Dec(7874, 10000), -Dec(5000, 10000), Dec(3607, 10000))
      [] count = 4 /\ i = 2 -> Vec(-Dec(6555, 10000), 0, Dec(7552, 10000))
      [] OTHER -> Vec(-Dec(4678, 10000), Dec(5000, 10000), -Dec(7288, 10000))

\* Math.pow(r, 1 / 3) for r = 0 and r = 1/2.
CubeRoot(r) == IF r = 0 THEN 0 ELSE Dec(7937, 10000)

\* The fallback rules: a point at radius Math.pow(Math.random(), 1/3) * radiusScale.
FallbackPoint(i, count, r, radiusScale) ==
    LET rad == Mul(CubeRoot(r), radiusScale)
        dir == FallbackDir(i, count)
    IN  Vec(Mul(rad, dir.x), Mul(rad, dir.y), Mul(rad, dir.z))

\* generateParticleData: the point of particle i (0-based) of count, every
\* Math.random() call returning r; 'custom' reads window.customParticlesCache[i].
PatternPointAt(p, i, count, cache, r) ==
    LET scale == ShapeScale(p)
        rule == PatternRule(p)
    IN  CASE rule = "wave" -> WavePoint(i, count, r)
          [] rule = "galaxy" -> GalaxyPoint(i, r)
          [] rule = "custom" ->
               IF cache /= << >> /\ i + 1 \in DOMAIN cache
               THEN Vec(Mul(cache[i + 1].x, scale), Mul(cache[i + 1].y, scale),
                        Mul(cache[i + 1].z, scale))
               ELSE FallbackPoint(i, count, r, Mul(scale, Dec(1, 2)))
          [] rule = "default" -> FallbackPoint(i, count, r, scale)
          [] OTHER -> PatternPoint(rule, r)

\* A flat buffer that keeps two coordinates per particle.
FlattenPairs(points) ==
    [k \in 1..(2 * Len(points)) |->
        LET p == points[((k - 1) \div 2) + 1]
        IN  IF (k - 1) % 2 = 0 THEN p.x ELSE p.y]

\* A flat buffer of 3 * count coordinates from one point per particle.
Flatten(points) ==
    [k \in 1..(3 * Len(points)) |->
        LET p == points[((k - 1) \div 3) + 1]
        IN  CASE (k - 1) % 3 = 0 -> p.x [] (k - 1) % 3 = 1 -> p.y [] OTHER -> p.z]

\* extractParticlesFromCanvas(canvas, count) on a canvas with no drawn pixel:
\* the default cluster, every Math.random() call returning r.
DefaultParticle(r) ==
    Vec(Mul(r - Dec(1, 2), Dec(2, 10)), Mul(r - Dec(1, 2), Dec(2, 10)),
        Mul(r - Dec(1, 2), Dec(1, 10)))

DefaultClusters(count) ==
    {[i \in 1..count |-> DefaultParticle(r)] : r \in RandomDraws}

\* generateParticleData(pattern, count).targetPositions: the buffers it can
\* return (every Math.random() call of one generation returns the same r).
\* 'custom' reads window.customParticlesCache (cache), when it is set.
TargetBuffers(pattern, count, cache) ==
    {Flatten([k \in 1..count |-> PatternPointAt(pattern, k - 1, count, cache, r)]) :
        r \in RandomDraws}

\* generateParticleData(...).positions: the entry-animation jitter near the origin.
JitterBuffers(count) ==
    {[k \in 1..(3 * count) |-> Mul(r - Dec(1, 2), Dec(1, 10))] : r \in RandomDraws}

\* THREE.Color.setHSL: one channel from the hue (hue2rgb).
hue2rgb(lo, hi, t) ==
    LET tt == IF t < 0 THEN t + One ELSE IF t > One THEN t - One ELSE t
    IN  IF 6 * tt < One THEN lo + Mul(hi - lo, 6 * tt)
        ELSE IF 2 * tt < One THEN hi
        ELSE IF 3 * tt < 2 * One THEN lo + Mul(hi - lo, 6 * (Dec(2, 3) - tt))
        ELSE lo

\* baseColor.setHSL(h, s, l): the colour's r, g, b as x, y, z.
setHSL(h, s, l) ==
    LET hi == IF 2 * l <= One THEN Mul(l, One + s) ELSE l + s - Mul(l, s)
        lo == 2 * l - hi
    IN  Vec(hue2rgb(lo, hi, h + Dec(1, 3)), hue2rgb(lo, hi, h), hue2rgb(lo, hi, h - Dec(1, 3)))

\* generateParticleData(pattern, count): what it returns when the shape's
\* Math.random() calls return r and the entry jitter's calls return rj.
ParticleData(p, count, cache, r, rj) ==
    [positions |-> [k \in 1..(3 * count) |-> Mul(rj - Dec(1, 2), Dec(1, 10))],
     targetPositions |->
         Flatten([k \in 1..count |-> PatternPointAt(p, k - 1, count, cache, r)]),
     sizes |-> [k \in 1..count |-> Mul(r, Dec(1, 2)) + Dec(1, 10)],
     colors |->
         Flatten([k \in 1..count |->
                     setHSL(Mul(r, Dec(1, 10)) + Dec(1, 2), Dec(7, 10),
                            Mul(r, Dec(1, 2)) + Dec(3, 10))])]

generateParticleData(p, count, cache) ==
    {ParticleData(p, count, cache, r, rj) : r \in RandomDraws, rj \in RandomDraws}

\* initDrawCanvas: canvas.width = canvas.height = 300.
CanvasSize == 300

\* extractParticlesFromCanvas: a drawn pixel as a point of [-1, 1]^2 (y
\* flipped), with a small random depth.
PixelPoint(pixel, r) ==
    Vec((RoundDiv(pixel.x * One, CanvasSize) - Dec(1, 2)) * 2,
        -((RoundDiv(pixel.y * One, CanvasSize) - Dec(1, 2)) * 2),
        Mul(r - Dec(1, 2), Dec(3, 10)))

\* An extraction that returns no particle for a canvas without drawn pixels.
ExtractedParticlesNoDefault(drawn, count, r) ==
    IF Len(drawn) = 0
    THEN << >>
    ELSE [k \in 1..count |-> PixelPoint(drawn[1], r)]

\* An extraction without the random fill: the stride samples only.
ExtractedParticlesNoFill(drawn, count, r) ==
    IF Len(drawn) = 0
    THEN [k \in 1..count |-> DefaultParticle(r)]
    ELSE LET step == Max(1, Len(drawn) \div count)
             sampled == Min(count, (Len(drawn) + step - 1) \div step)
         IN  [k \in 1..sampled |-> PixelPoint(drawn[(k - 1) * step + 1], r)]

\* extractParticlesFromCanvas(canvas, count): drawn lists the pixels of the
\* canvas that pass the threshold, in scan order; every Math.random() call
\* returns r.
ExtractedParticles(drawn, count, r) ==
    IF Len(drawn) = 0
    THEN [k \in 1..count |-> DefaultParticle(r)]
    ELSE LET step == Max(1, Len(drawn) \div count)
             sampled == Min(count, (Len(drawn) + step - 1) \div step)
             randomPixel == drawn[((r * Len(drawn)) \div One) + 1]
         IN  [k \in 1..count |->
                 IF k <= sampled
                 THEN PixelPoint(drawn[(k - 1) * step + 1], r)
                 ELSE PixelPoint(randomPixel, r)]

extractParticlesFromCanvas(drawn, count) ==
    {ExtractedParticles(drawn, count, r) : r \in RandomDraws}

\* ------------------------------------------------------------ gesture mapping

\* hands.onResults: const dist = Math.hypot(t.x - i.x, t.y - i.y, t.z - i.z)
PinchDist(lm) == hypot(lm[4].x - lm[8].x, lm[4].y - lm[8].y, lm[4].z - lm[8].z)
\* hands.onResults: const baseDist = Math.hypot(w.x - m.x, w.y - m.y, w.z - m.z)
BaseDist(lm) == hypot(lm[0].x - lm[9].x, lm[0].y - lm[9].y, lm[0].z - lm[9].z)

\* The scale mapping without the clamp of the normalised ratio to [0, 1].
ScaleMappingUnclamped(dist, baseDist) ==
    lerp(minScale, maxScale, Div(Div(dist, baseDist) - minNorm, maxNorm - minNorm))

\* The scale mapping on the raw pinch distance, not divided by the base distance.
ScaleMappingNoBase(dist, baseDist) ==
    lerp(minScale, maxScale, Min(One, Max(0, Div(dist - minNorm, maxNorm - minNorm))))

\* hands.onResults: the scale target from the pinch and base distances (baseDist > 0).
ScaleMapping(dist, baseDist) ==
    LET normalizedDist == Div(dist, baseDist)
        clamped == Min(One, Max(0, Div(normalizedDist - minNorm, maxNorm - minNorm)))
    IN  lerp(minScale, maxScale, clamped)

\* hands.onResults: const newRotY = normX * maxRotY, with normX = (ref.x - 0.5) * 2
NewRotY(lm) == Mul((lm[9].x - Dec(1, 2)) * 2, maxRotY)
\* hands.onResults: const newRotX = -normY * maxRotX, with normY = (ref.y - 0.5) * 2
NewRotX(lm) == Mul(-((lm[9].y - Dec(1, 2)) * 2), maxRotX)

\* ------------------------------------------------------------ state

VARIABLES
    handScaleTarget,    \* threeRefs.current.handScaleTarget
    handScaleCurrent,   \* threeRefs.current.handScaleCurrent
    handDistance,       \* React state shown in the panel
    isHandDetected,     \* threeRefs.current.isHandDetected
    rotationXTarget,    \* threeRefs.current.rotationXTarget
    rotationYTarget,    \* threeRefs.current.rotationYTarget
    rotation,           \* particles.rotation (x, y, z)
    positions,          \* geometry.attributes.position.array
    targetPositions,    \* geometry.attributes.a_target.array
    currentPattern,     \* threeRefs.current.currentPattern
    selectedPattern,    \* React state
    isWebcamActive,     \* React state
    isMediaPipeReady,   \* React state
    scripts,            \* the two loadScript promises: "loading", "loaded", "failed"
    camera,             \* the window.Camera of the running effect: "none", "started", "stopped"
    hands,              \* the window.Hands of the running effect: "none", "open", "closed";
                        \* "threw" once new window.Hands(...) threw and React unmounted the tree
    mediaPipeRefs,      \* TRUE when mediaPipeRefs.current holds { hands, camera }
    showDrawPanel,      \* React state: the drawing panel (and its canvas) is shown
    customParticlesCache, \* window.customParticlesCache: << >> when unset
    applyTimer,         \* TRUE while the 100 ms timeout of the panel effect is pending
    nSteps,             \* how many events happened (bounded)
    last,               \* history: the last event, its input, isHandDetected before it
    frameLog,           \* history: the hand frames fed so far and their scale targets
    handLost,           \* history: a detected hand was lost and none was detected since
    chan,               \* a smoothed channel on its own: current, target, alpha, ticks
    gen,                \* a generation on its own: its inputs, the cache, what it returned
    resources,          \* what the scene effect acquired and has not released
    sceneMounted,       \* threeRefs.current holds the scene (FALSE after the cleanup)
    raf,                \* requestAnimationFrame(animate): how many requests are pending,
                        \* and whether threeRefs.current.animationId names one
    sizes,              \* geometry.attributes.a_size.array
    colors,             \* geometry.attributes.a_color.array
    autoRotateY,        \* history: what the idle increments of the render ticks add up to
    twin,               \* a second run fed its own camera frames: its gesture targets
    inFlight            \* the results of a hands.send(...) not yet called back: << >> or <<results>>

gesture == <<handScaleTarget, isHandDetected, rotationXTarget, rotationYTarget>>
rendered == <<handScaleCurrent, handDistance, rotation, positions>>
pattern == <<targetPositions, currentPattern, selectedPattern>>
drawing == <<showDrawPanel, customParticlesCache, applyTimer>>
tracker == <<isWebcamActive, isMediaPipeReady, scripts, camera, hands, mediaPipeRefs>>
counters == <<nSteps>>
history == <<last, frameLog, handLost, chan, gen>>
attributes == <<sizes, colors>>
sceneState == <<resources, sceneMounted, raf, attributes>>
shadow == <<autoRotateY, twin, inFlight>>
vars == <<gesture, rendered, pattern, drawing, tracker, counters, history, sceneState,
         shadow>>

\* useEffect (init three.js scene): what the body acquires: the WebGL renderer
\* (and its canvas in the container), the geometry with its buffers, the
\* shader material, the particle texture of generateParticleTexture(), the
\* resize listener, and the animation-frame request of animate().
SceneResources ==
    {"renderer", "geometry", "material", "texture", "resizeListener", "animationFrame"}

Event(kind, input) == [kind |-> kind, input |-> input, wasDetected |-> isHandDetected]

\* The state once the component has mounted: the scene effect has built the
\* geometry for the default pattern 'heart' and set the gesture defaults, the
\* gesture effect has run with the camera off, the scripts are loading.
\* The gesture fields of threeRefs.current after the scene effect ran, for
\* the second run: no frame was delivered yet, the two runs got the same frames.
TwinAtRest ==
    [handScaleTarget |-> One, isHandDetected |-> FALSE,
     rotationXTarget |-> 0, rotationYTarget |-> 0,
     input |-> << >>, same |-> TRUE]

Mounted ==
    /\ handScaleTarget = One
    /\ handScaleCurrent = One
    /\ handDistance = One
    /\ isHandDetected = FALSE
    /\ rotationXTarget = 0
    /\ rotationYTarget = 0
    /\ rotation = Vec(0, 0, 0)
    /\ positions \in JitterBuffers(PARTICLE_COUNT)
    /\ targetPositions \in TargetBuffers("heart", PARTICLE_COUNT, << >>)
    /\ \E data \in generateParticleData("heart", PARTICLE_COUNT, << >>) :
           /\ data.targetPositions = targetPositions
           /\ sizes = data.sizes
           /\ colors = data.colors
    /\ currentPattern = "heart"
    /\ selectedPattern = "heart"
    /\ showDrawPanel = FALSE
    /\ customParticlesCache = << >>
    /\ applyTimer = FALSE
    /\ nSteps = 0
    /\ last = [kind |-> "mount", input |-> << >>, wasDetected |-> FALSE]
    /\ frameLog = << >>
    /\ handLost = FALSE
    /\ resources = SceneResources
    /\ sceneMounted = TRUE
    /\ raf = [pending |-> 1, idSet |-> TRUE]
    /\ autoRotateY = 0
    /\ twin = TwinAtRest
    /\ inFlight = << >>

\* handLost after a step: set when a detected hand is lost, cleared when a
\* hand is detected.
TrackLoss == handLost' = (~isHandDetected' /\ (handLost \/ isHandDetected))

NoChannel == [start |-> 0, current |-> 0, target |-> 0, alpha |-> 0, ticks |-> 0]

NoGen == [stage |-> "none"]

\* The camera is off and the scripts are still loading.
TrackerOff ==
    /\ isWebcamActive = FALSE
    /\ isMediaPipeReady = FALSE
    /\ scripts = "loading"
    /\ camera = "none"
    /\ hands = "none"
    /\ mediaPipeRefs = FALSE

Init ==
    /\ Mounted
    /\ TrackerOff
    /\ chan = NoChannel
    /\ gen = NoGen

\* ------------------------------------------------------------ render tick

\* An idle Z tilt for the galaxy only.
BaseTiltZGalaxyOnly(p) == IF p = "galaxy" THEN RoundDiv(PI, 10) ELSE 0

\* animate: the idle tilt targets of the current pattern (x, z).
BaseTiltX(p) == IF p = "galaxy" \/ p = "torus" THEN RoundDiv(PI, 8) ELSE 0
BaseTiltZ(p) ==
    IF p = "galaxy" THEN RoundDiv(PI, 10)
    ELSE IF p = "torus" THEN RoundDiv(PI, 14)
    ELSE 0

\* The rotation after one tick, the idle tilt assigned rather than smoothed.
NextRotationSnapsIdle(rot, hasHand, targetRotX, targetRotY, p) ==
    IF hasHand
    THEN Vec(lerp(rot.x, targetRotX, RotationAlpha),
             lerp(rot.y, targetRotY, RotationAlpha),
             lerp(rot.z, 0, RotationAlpha))
    ELSE Vec(BaseTiltX(p), rot.y + IdleIncrement, BaseTiltZ(p))

\* The rotation after one tick, the idle Y rotation smoothed toward the target
\* before the increment is added.
NextRotationIdleDecays(rot, hasHand, targetRotX, targetRotY, p) ==
    IF hasHand
    THEN Vec(lerp(rot.x, targetRotX, RotationAlpha),
             lerp(rot.y, targetRotY, RotationAlpha),
             lerp(rot.z, 0, RotationAlpha))
    ELSE Vec(lerp(rot.x, BaseTiltX(p), RotationAlpha),
             lerp(rot.y, targetRotY, RotationAlpha) + IdleIncrement,
             lerp(rot.z, BaseTiltZ(p), RotationAlpha))

\* animate: the rotation after one tick.
NextRotation(rot, hasHand, targetRotX, targetRotY, p) ==
    IF hasHand
    THEN Vec(lerp(rot.x, targetRotX, RotationAlpha),
             lerp(rot.y, targetRotY, RotationAlpha),
             lerp(rot.z, 0, RotationAlpha))
    ELSE Vec(lerp(rot.x, BaseTiltX(p), RotationAlpha),
             rot.y + IdleIncrement,
             lerp(rot.z, BaseTiltZ(p), RotationAlpha))

\* A render tick that moves the particles toward the pattern target times the
\* scale of the tick before.
renderTickStaleScale ==
    /\ LET newScale == lerp(handScaleCurrent, handScaleTarget, ScaleAlpha)
       IN  /\ handScaleCurrent' = newScale
           /\ handDistance' = newScale
           /\ positions' = [k \in DOMAIN positions |->
                               lerp(positions[k],
                                    Mul(targetPositions[k], handScaleCurrent),
                                    PositionAlpha)]
    /\ rotation' = NextRotation(rotation, isHandDetected, rotationXTarget,
                                rotationYTarget, currentPattern)
    /\ UNCHANGED <<gesture, pattern, drawing, tracker>>
    /\ last' = Event("tick", << >>)

\* animate: what one render tick does to the scene (the scene exists).
renderTick ==
    /\ LET newScale == lerp(handScaleCurrent, handScaleTarget, ScaleAlpha)
       IN  /\ handScaleCurrent' = newScale
           /\ handDistance' = newScale
           /\ positions' = [k \in DOMAIN positions |->
                               lerp(positions[k], Mul(targetPositions[k], newScale),
                                    PositionAlpha)]
    /\ rotation' = NextRotation(rotation, isHandDetected, rotationXTarget,
                                rotationYTarget, currentPattern)
    /\ UNCHANGED <<gesture, pattern, drawing, tracker>>
    /\ last' = Event("tick", << >>)

\* animate: one render tick of the session.
animate ==
    /\ nSteps < MaxSteps
    /\ renderTick
    /\ nSteps' = nSteps + 1

\* ------------------------------------------------------------ tracker callback

\* A hand frame that treats a zero base distance as a lost hand.
HandFrameZeroBaseResets(lm) ==
    LET isFirstDetection == ~isHandDetected
        startX == IF isFirstDetection THEN rotation.x ELSE rotationXTarget
        startY == IF isFirstDetection THEN rotation.y ELSE rotationYTarget
        smoothing == IF isFirstDetection THEN FirstSmoothing ELSE SteadySmoothing
    IN  IF BaseDist(lm) > 0
        THEN /\ handScaleTarget' = ScaleMapping(PinchDist(lm), BaseDist(lm))
             /\ isHandDetected' = TRUE
             /\ rotationXTarget' = lerp(startX, NewRotX(lm), smoothing)
             /\ rotationYTarget' = lerp(startY, NewRotY(lm), smoothing)
        ELSE /\ handScaleTarget' = One
             /\ isHandDetected' = FALSE
             /\ rotationXTarget' = 0
             /\ rotationYTarget' = 0

\* hands.onResults, a frame with landmarks lm: the gesture targets after it.
HandFrame(lm) ==
    LET isFirstDetection == ~isHandDetected
        startX == IF isFirstDetection THEN rotation.x ELSE rotationXTarget
        startY == IF isFirstDetection THEN rotation.y ELSE rotationYTarget
        smoothing == IF isFirstDetection THEN FirstSmoothing ELSE SteadySmoothing
    IN  IF BaseDist(lm) > 0
        THEN /\ handScaleTarget' = ScaleMapping(PinchDist(lm), BaseDist(lm))
             /\ isHandDetected' = TRUE
             /\ rotationXTarget' = lerp(startX, NewRotX(lm), smoothing)
             /\ rotationYTarget' = lerp(startY, NewRotY(lm), smoothing)
        ELSE UNCHANGED gesture

\* A no-hand frame that resets the scale target and the flag only.
NoHandFrameKeepsRotation ==
    /\ handScaleTarget' = One
    /\ isHandDetected' = FALSE
    /\ UNCHANGED <<rotationXTarget, rotationYTarget>>

\* hands.onResults, a frame without landmarks.
NoHandFrame ==
    /\ handScaleTarget' = One
    /\ isHandDetected' = FALSE
    /\ rotationXTarget' = 0
    /\ rotationYTarget' = 0

\* The callback with a first detection that also snaps the rendered rotation
\* to the new rotation targets.
onResultsSnaps(results) ==
    /\ camera = "started"
    /\ nSteps < MaxSteps
    /\ IF results /= NoHandResults THEN HandFrame(results[1]) ELSE NoHandFrame
    /\ rotation' = IF results /= NoHandResults /\ ~isHandDetected
                   THEN [rotation EXCEPT !.x = rotationXTarget', !.y = rotationYTarget']
                   ELSE rotation
    /\ nSteps' = nSteps + 1
    /\ UNCHANGED <<handScaleCurrent, handDistance, positions, pattern, drawing, tracker>>
    /\ last' = Event("frame", results)

\* hands.onResults(results): the camera is started and feeds frames.
onResults(results) ==
    /\ camera = "started"
    /\ nSteps < MaxSteps
    /\ IF results /= NoHandResults THEN HandFrame(results[1]) ELSE NoHandFrame
    /\ nSteps' = nSteps + 1
    /\ UNCHANGED <<rendered, pattern, drawing, tracker>>
    /\ last' = Event("frame", results)

\* ------------------------------------------------------------ gesture start/stop

\* The gesture effect with an off-branch that stops the camera and the
\* tracker but leaves the gesture targets as they are.
GestureEffectKeepsTargets(active, ready) ==
    IF ~active \/ ~ready
    THEN /\ camera' = IF camera = "started" THEN "stopped" ELSE camera
         /\ hands' = IF hands = "open" THEN "closed" ELSE hands
         /\ mediaPipeRefs' = FALSE
         /\ UNCHANGED gesture
    ELSE /\ camera' = "started"
         /\ hands' = "open"
         /\ mediaPipeRefs' = TRUE
         /\ UNCHANGED gesture

\* useEffect (init MediaPipe Hands), re-run with the new isWebcamActive and
\* isMediaPipeReady: first the cleanup the previous run returned (it returned
\* one only when it had started the tracker), then the body.  Past the guard
\* the body evaluates new window.Hands(...): without the library window.Hands
\* is undefined, the effect throws, and the uncaught error unmounts the tree.
GestureEffect(active, ready) ==
    IF ~active \/ ~ready
    THEN /\ camera' = IF camera = "started" THEN "stopped" ELSE camera
         /\ hands' = IF hands = "open" THEN "closed" ELSE hands
         /\ mediaPipeRefs' = FALSE
         /\ handScaleTarget' = One
         /\ isHandDetected' = FALSE
         /\ rotationXTarget' = 0
         /\ rotationYTarget' = 0
    ELSE IF scripts' = "loaded"
    THEN /\ camera' = "started"
         /\ hands' = "open"
         /\ mediaPipeRefs' = TRUE
         /\ UNCHANGED gesture
    ELSE /\ hands' = "threw"
         /\ UNCHANGED <<camera, mediaPipeRefs, gesture>>

\* The Start Camera / Stop Camera button: setIsWebcamActive(!isWebcamActive).
ToggleWebcam ==
    /\ nSteps < MaxSteps
    /\ isWebcamActive' = ~isWebcamActive
    /\ UNCHANGED <<isMediaPipeReady, scripts>>
    /\ GestureEffect(~isWebcamActive, isMediaPipeReady)
    /\ nSteps' = nSteps + 1
    /\ UNCHANGED <<rendered, pattern, drawing>>
    /\ last' = Event("toggle", << >>)

\* useEffect (load MediaPipe scripts), run again on the remount that
\* React.StrictMode performs right after the first mount of a development
\* build: loadScript finds both script elements by id and resolves at once,
\* so setIsMediaPipeReady(true) runs while the scripts are still loading.
ScriptsFoundById ==
    /\ last.kind = "mount"
    /\ scripts = "loading"
    /\ ~isMediaPipeReady
    /\ isMediaPipeReady' = TRUE
    /\ UNCHANGED <<gesture, rendered, pattern, drawing, isWebcamActive, scripts,
                   camera, hands, mediaPipeRefs, counters>>
    /\ last' = Event("found", << >>)

\* useEffect (load MediaPipe scripts): both scripts loaded, setIsMediaPipeReady(true);
\* the gesture effect runs again when isMediaPipeReady changed.
ScriptsLoaded ==
    /\ scripts = "loading"
    /\ scripts' = "loaded"
    /\ isMediaPipeReady' = TRUE
    /\ IF isMediaPipeReady
       THEN UNCHANGED <<gesture, camera, hands, mediaPipeRefs>>
       ELSE GestureEffect(isWebcamActive, TRUE)
    /\ UNCHANGED <<rendered, pattern, drawing, isWebcamActive, counters>>
    /\ last' = Event("loaded", << >>)

\* useEffect (load MediaPipe scripts): a script failed to load (console.error, alert).
ScriptsFailed ==
    /\ scripts = "loading"
    /\ scripts' = "failed"
    /\ UNCHANGED <<gesture, rendered, pattern, drawing, isWebcamActive, isMediaPipeReady,
                   camera, hands, mediaPipeRefs, counters>>
    /\ last' = Event("failed", << >>)

\* ------------------------------------------------------------ pattern selection

\* A pattern selection that also puts the particles on the new targets.
SelectPatternSnaps(p) ==
    /\ nSteps < MaxSteps
    /\ p /= selectedPattern
    /\ selectedPattern' = p
    /\ currentPattern' = p
    /\ IF p = "custom"
       THEN /\ showDrawPanel' = TRUE
            /\ IF showDrawPanel /\ customParticlesCache /= << >>
               THEN targetPositions' \in TargetBuffers(p, PARTICLE_COUNT, customParticlesCache)
               ELSE UNCHANGED targetPositions
            /\ IF showDrawPanel
               THEN UNCHANGED <<customParticlesCache, applyTimer>>
               ELSE /\ applyTimer' = TRUE
                    /\ IF customParticlesCache = << >>
                       THEN customParticlesCache' \in DefaultClusters(PARTICLE_COUNT)
                       ELSE UNCHANGED customParticlesCache
            /\ UNCHANGED rotation
       ELSE /\ targetPositions' \in TargetBuffers(p, PARTICLE_COUNT, customParticlesCache)
            /\ rotation' = [rotation EXCEPT !.x = 0, !.y = 0]
            /\ UNCHANGED drawing
    /\ nSteps' = nSteps + 1
    /\ positions' = targetPositions'
    /\ UNCHANGED <<gesture, handScaleCurrent, handDistance, tracker>>
    /\ last' = Event("select", p)

\* A pattern selection that leaves the rendered rotation as it is.
SelectPatternKeepsRotation(p) ==
    /\ nSteps < MaxSteps
    /\ p /= selectedPattern
    /\ selectedPattern' = p
    /\ currentPattern' = p
    /\ IF p = "custom"
       THEN /\ showDrawPanel' = TRUE
            /\ IF showDrawPanel /\ customParticlesCache /= << >>
               THEN targetPositions' \in TargetBuffers(p, PARTICLE_COUNT, customParticlesCache)
               ELSE UNCHANGED targetPositions
            /\ IF showDrawPanel
               THEN UNCHANGED <<customParticlesCache, applyTimer>>
               ELSE /\ applyTimer' = TRUE
                    /\ IF customParticlesCache = << >>
                       THEN customParticlesCache' \in DefaultClusters(PARTICLE_COUNT)
                       ELSE UNCHANGED customParticlesCache
            /\ UNCHANGED rotation
       ELSE /\ targetPositions' \in TargetBuffers(p, PARTICLE_COUNT, customParticlesCache)
            /\ UNCHANGED rotation
            /\ UNCHANGED drawing
    /\ nSteps' = nSteps + 1
    /\ UNCHANGED <<gesture, handScaleCurrent, handDistance, positions, tracker>>
    /\ last' = Event("select", p)

\* A pattern button: setSelectedPattern(p), then useEffect (update pattern);
\* selecting 'custom' opens the drawing panel, whose effect (initDrawCanvas)
\* fills window.customParticlesCache from the blank canvas when it is unset
\* and arms the 100 ms timeout.
SelectPattern(p) ==
    /\ nSteps < MaxSteps
    /\ p /= selectedPattern
    /\ selectedPattern' = p
    /\ currentPattern' = p
    /\ IF p = "custom"
       THEN /\ showDrawPanel' = TRUE
            /\ IF showDrawPanel /\ customParticlesCache /= << >>
               THEN targetPositions' \in TargetBuffers(p, PARTICLE_COUNT, customParticlesCache)
               ELSE UNCHANGED targetPositions
            /\ IF showDrawPanel
               THEN UNCHANGED <<customParticlesCache, applyTimer>>
               ELSE /\ applyTimer' = TRUE
                    /\ IF customParticlesCache = << >>
                       THEN customParticlesCache' \in DefaultClusters(PARTICLE_COUNT)
                       ELSE UNCHANGED customParticlesCache
            /\ UNCHANGED rotation
       ELSE /\ targetPositions' \in TargetBuffers(p, PARTICLE_COUNT, customParticlesCache)
            /\ rotation' = [rotation EXCEPT !.x = 0, !.y = 0]
            /\ UNCHANGED drawing
    /\ nSteps' = nSteps + 1
    /\ UNCHANGED <<gesture, handScaleCurrent, handDistance, positions, tracker>>
    /\ last' = Event("select", p)

\* The timeout of the panel effect fires: its closure saw selectedPattern =
\* 'custom', so it calls applyDrawing() (which returns early without a canvas).
ApplyTimer ==
    /\ applyTimer
    /\ applyTimer' = FALSE
    /\ IF showDrawPanel
       THEN /\ customParticlesCache' \in DefaultClusters(PARTICLE_COUNT)
            /\ targetPositions' \in
                   TargetBuffers("custom", PARTICLE_COUNT, customParticlesCache')
       ELSE UNCHANGED <<customParticlesCache, targetPositions>>
    /\ UNCHANGED <<gesture, rendered, currentPattern, selectedPattern, showDrawPanel,
                   tracker, counters>>
    /\ last' = Event("timer", << >>)

\* ------------------------------------------------------------ specification

\* The session: render ticks, camera frames, the camera button, the script
\* loads, the pattern buttons and the panel timeout, in any order.
Session ==
    /\ hands /= "threw"
    /\ \/ animate
       \/ \E results \in Results : onResults(results)
       \/ ToggleWebcam
       \/ ScriptsLoaded
       \/ ScriptsFailed
       \/ \E p \in PatternInputs : SelectPattern(p)
       \/ ApplyTimer
    /\ TrackLoss

Next == Session /\ UNCHANGED <<frameLog, chan, gen, sceneState, shadow>>

Spec == Init /\ [][Next]_vars

\* The session of a development build: React.StrictMode remounts the
\* component once, right after the first mount.
NextDev ==
    \/ Next
    \/ ScriptsFoundById /\ TrackLoss /\ UNCHANGED <<frameLog, chan, gen, sceneState, shadow>>

SpecDev == Init /\ [][NextDev]_vars

\* autoRotateY after a step: a render tick with no hand detected adds the
\* idle increment.
TrackIdle ==
    autoRotateY' = IF last'.kind = "tick" /\ ~isHandDetected
                   THEN autoRotateY + IdleIncrement
                   ELSE autoRotateY

\* The session, with the sum of the idle increments recorded.
NextTurn ==
    Session /\ TrackIdle /\ UNCHANGED <<frameLog, chan, gen, sceneState, twin, inFlight>>

SpecTurn == Init /\ [][NextTurn]_vars

\* ------------------------------------------------------------ the scale mapping alone

\* Pinch and base distances (d, b) fed to the scale mapping: ratios 0.025,
\* 0.05, 0.3, 0.6, 1.2 and 1.5 on the base 0.2, ratio 0.3 on the base 0.4,
\* and a zero base.
ScaleSamples ==
    {<<Dec(5, 1000), Dec(2, 10)>>, <<Dec(1, 100), Dec(2, 10)>>, <<Dec(6, 100), Dec(2, 10)>>,
     <<Dec(12, 100), Dec(2, 10)>>, <<Dec(24, 100), Dec(2, 10)>>, <<Dec(3, 10), Dec(2, 10)>>,
     <<Dec(12, 100), Dec(4, 10)>>, <<Dec(12, 100), 0>>}

Centre == [x |-> Dec(1, 2), y |-> Dec(1, 2)]

\* The session with the scripts loaded and the camera started.
InitTracking ==
    /\ Mounted
    /\ isWebcamActive = TRUE
    /\ isMediaPipeReady = TRUE
    /\ scripts = "loaded"
    /\ camera = "started"
    /\ hands = "open"
    /\ mediaPipeRefs = TRUE
    /\ chan = NoChannel
    /\ gen = NoGen

\* One hand frame, logged with the scale target before and after it.
FeedFrame ==
    \E h \in ScaleSamples :
        /\ Len(frameLog) < MaxLog
        /\ onResults(<<MkHand(h[1], h[2], Centre)>>)
        /\ frameLog' = Append(frameLog, [d |-> h[1], b |-> h[2],
                                         before |-> handScaleTarget,
                                         after |-> handScaleTarget'])
        /\ TrackLoss
        /\ UNCHANGED <<chan, gen, sceneState, shadow>>

SpecScale == InitTracking /\ [][FeedFrame]_vars

\* ------------------------------------------------------------ two runs of the tracker callback

\* How many camera frames each of the two runs gets.
MaxTwinFrames == 3

\* hands.onResults with a scale target smoothed from the previous one.
FrameTargetsScaleSmoothed(g, rot, results) ==
    IF results = NoHandResults
    THEN [g EXCEPT !.handScaleTarget = One, !.isHandDetected = FALSE,
                   !.rotationXTarget = 0, !.rotationYTarget = 0]
    ELSE LET lm == results[1]
             isFirstDetection == ~g.isHandDetected
             startX == IF isFirstDetection THEN rot.x ELSE g.rotationXTarget
             startY == IF isFirstDetection THEN rot.y ELSE g.rotationYTarget
             smoothing == IF isFirstDetection THEN FirstSmoothing ELSE SteadySmoothing
         IN  IF BaseDist(lm) > 0
             THEN [g EXCEPT
                     !.handScaleTarget =
                         lerp(g.handScaleTarget,
                              ScaleMapping(PinchDist(lm), BaseDist(lm)), smoothing),
                     !.isHandDetected = TRUE,
                     !.rotationXTarget = lerp(startX, NewRotX(lm), smoothing),
                     !.rotationYTarget = lerp(startY, NewRotY(lm), smoothing)]
             ELSE g

\* hands.onResults(results) as a function: the gesture fields g of
\* threeRefs.current after the callback, rot being particles.rotation.
FrameTargets(g, rot, results) ==
    IF results = NoHandResults
    THEN [g EXCEPT !.handScaleTarget = One, !.isHandDetected = FALSE,
                   !.rotationXTarget = 0, !.rotationYTarget = 0]
    ELSE LET lm == results[1]
             isFirstDetection == ~g.isHandDetected
             startX == IF isFirstDetection THEN rot.x ELSE g.rotationXTarget
             startY == IF isFirstDetection THEN rot.y ELSE g.rotationYTarget
             smoothing == IF isFirstDetection THEN FirstSmoothing ELSE SteadySmoothing
         IN  IF BaseDist(lm) > 0
             THEN [g EXCEPT
                     !.handScaleTarget = ScaleMapping(PinchDist(lm), BaseDist(lm)),
                     !.isHandDetected = TRUE,
                     !.rotationXTarget = lerp(startX, NewRotX(lm), smoothing),
                     !.rotationYTarget = lerp(startY, NewRotY(lm), smoothing)]
             ELSE g

\* The callback runs once in each of two runs of the started tracker: this
\* run gets r1, the second run gets r2.
TwinFrames ==
    \E r1 \in Results, r2 \in Results :
        /\ nSteps < MaxTwinFrames
        /\ onResults(r1)
        /\ twin' = [FrameTargets(twin, rotation, r2) EXCEPT
                       !.input = r2, !.same = twin.same /\ r1 = r2]
        /\ TrackLoss
        /\ UNCHANGED <<frameLog, chan, gen, sceneState, autoRotateY, inFlight>>

SpecTwin == InitTracking /\ [][TwinFrames]_vars

\* ------------------------------------------------------------ one smoothed channel alone

\* How many ticks a run of the single channel has.
MaxLerpTicks == 100

\* The channels smoothed: start value, target and smoothing factor.
LerpStarts == {0, 5 * One, -2 * One}
LerpTargets == {5 * One, 0, One}
LerpAlphas == {Dec(1, 10), Dec(12, 100), Dec(5, 100)}

InitLerp ==
    /\ Mounted
    /\ TrackerOff
    /\ chan \in {[start |-> c, current |-> c, target |-> t, alpha |-> a, ticks |-> 0] :
                    c \in LerpStarts, t \in LerpTargets, a \in LerpAlphas}
    /\ gen = NoGen

\* channel.current += alpha * (target - current), as animate does it:
\* current = lerp(current, target, alpha).
LerpTick ==
    /\ chan.ticks < MaxLerpTicks
    /\ chan' = [chan EXCEPT !.current = lerp(chan.current, chan.target, chan.alpha),
                            !.ticks = @ + 1]
    /\ UNCHANGED <<gesture, rendered, pattern, drawing, tracker, counters,
                   last, frameLog, handLost, gen, sceneState, shadow>>

SpecLerp == InitLerp /\ [][LerpTick]_vars

\* ------------------------------------------------------------ the cloud without a camera

\* The pattern buttons pressed in a run without a camera.
TiltInputs == PatternInputs \cup {"galaxy"}

\* Render ticks, pattern buttons and the panel timeout.
TiltStep ==
    /\ \/ animate
       \/ \E p \in TiltInputs : SelectPattern(p)
       \/ ApplyTimer
    /\ TrackLoss
    /\ UNCHANGED <<frameLog, chan, gen, sceneState, shadow>>

SpecTilt == Init /\ [][TiltStep]_vars

\* ------------------------------------------------------------ the idle cloud alone

\* How many render ticks an idle run has (2 * PI / 0.001 is about 6283.2).
MaxIdleTicks == 6300

\* animate, called back by requestAnimationFrame while nothing else happens:
\* no hand is detected, so the else branch of the rotation runs.
IdleTick ==
    /\ rotation.y < MaxIdleTicks * IdleIncrement
    /\ renderTick
    /\ UNCHANGED nSteps
    /\ TrackLoss
    /\ UNCHANGED <<frameLog, chan, gen, sceneState, shadow>>

SpecIdle == Init /\ [][IdleTick]_vars

\* ------------------------------------------------------------ the sphere rule alone

\* case 'sphere': the unit direction from the draws u and v
\* (theta = 2 * PI * u, phi = acos(2 * v - 1)), for the draws used here.
SphereDir(u, v) ==
    CASE u = 0 /\ v = 0 -> Vec(0, 0, -One)
      [] u = Dec(1, 2) /\ v = Dec(1, 2) -> Vec(-One, 0, 0)
      [] u = Dec(1, 4) /\ v = Dec(1, 2) -> Vec(0, One, 0)

\* The sphere rule with a glow of 1.02 + 0.5 * Math.random().
SpherePointWideGlow(d) ==
    LET scale == ShapeScale("sphere")
        dir == SphereDir(d.u, d.v)
        onShell == d.edge < Dec(7, 10)
        shellR == Mul(scale, Dec(9, 10) + Mul(Dec(1, 10), d.shell))
        glowed == onShell /\ d.glowDraw < Dec(25, 100)
        r == IF onShell
             THEN IF glowed
                  THEN Mul(shellR, Dec(102, 100) + Mul(Dec(5, 10), d.glow))
                  ELSE shellR
             ELSE Mul(scale, Mul(Dec(9, 10), One - Mul(d.t, d.t)))
    IN  [onShell |-> onShell, glowed |-> glowed,
         base |-> IF onShell THEN shellR ELSE r,
         pos |-> Vec(Mul(dir.x, r), Mul(dir.y, r), Mul(dir.z, r))]

\* case 'sphere': one particle from its Math.random() draws d: whether it is
\* on the shell, whether it got the glow, its radius before the glow, and
\* pos = dir.multiplyScalar(r).
SpherePoint(d) ==
    LET scale == ShapeScale("sphere")
        dir == SphereDir(d.u, d.v)
        onShell == d.edge < Dec(7, 10)
        shellR == Mul(scale, Dec(9, 10) + Mul(Dec(1, 10), d.shell))
        glowed == onShell /\ d.glowDraw < Dec(25, 100)
        r == IF onShell
             THEN IF glowed
                  THEN Mul(shellR, Dec(102, 100) + Mul(Dec(5, 100), d.glow))
                  ELSE shellR
             ELSE Mul(scale, Mul(Dec(9, 10), One - Mul(d.t, d.t)))
    IN  [onShell |-> onShell, glowed |-> glowed,
         base |-> IF onShell THEN shellR ELSE r,
         pos |-> Vec(Mul(dir.x, r), Mul(dir.y, r), Mul(dir.z, r))]

\* The draws of (u, v), and of the other Math.random() calls of the rule:
\* Math.random() is in [0, 1), the largest draw is one unit below 1.
SphereDirDraws == {<<0, 0>>, <<Dec(1, 2), Dec(1, 2)>>, <<Dec(1, 4), Dec(1, 2)>>}
UnitDraws == {0, Dec(1, 2), One - 1}
EdgeDraws == {0, Dec(7, 10) - 1, Dec(7, 10), One - 1}
GlowDraws == {0, Dec(25, 100) - 1, Dec(25, 100), One - 1}

InitSphere ==
    /\ Mounted
    /\ TrackerOff
    /\ chan = NoChannel
    /\ gen \in {[stage |-> "draws",
                 draws |-> [u |-> uv[1], v |-> uv[2], edge |-> e, shell |-> sh,
                            glowDraw |-> gd, glow |-> g, t |-> t],
                 point |-> << >>] :
                    uv \in SphereDirDraws, e \in EdgeDraws, sh \in UnitDraws,
                    gd \in GlowDraws, g \in UnitDraws, t \in UnitDraws}

\* One pass of the loop body of generateParticleData('sphere', count).
GenerateSpherePoint ==
    /\ gen.stage = "draws"
    /\ gen' = [gen EXCEPT !.stage = "point", !.point = SpherePoint(gen.draws)]
    /\ UNCHANGED <<gesture, rendered, pattern, drawing, tracker, counters,
                   last, frameLog, handLost, chan, sceneState, shadow>>

SpecSphere == InitSphere /\ [][GenerateSpherePoint]_vars

\* ------------------------------------------------------------ a hand after an idle run

\* How many render ticks the cloud idles before frames arrive
\* (maxRotY / 0.001 is about 785.4), and how many frames arrive.
MaxCapTicks == 800
MaxCapFrames == 2

\* animate while the started camera has delivered nothing yet.
CapsIdleTick ==
    /\ nSteps = 0
    /\ rotation.y < MaxCapTicks * IdleIncrement
    /\ renderTick
    /\ UNCHANGED nSteps
    /\ TrackLoss
    /\ UNCHANGED <<frameLog, chan, gen, sceneState, shadow>>

\* hands.onResults: the frames that arrive after the idle run.
CapsFrame ==
    /\ nSteps < MaxCapFrames
    /\ \E results \in Results : onResults(results)
    /\ TrackLoss
    /\ UNCHANGED <<frameLog, chan, gen, sceneState, shadow>>

SpecCaps == InitTracking /\ [][CapsIdleTick \/ CapsFrame]_vars

\* ------------------------------------------------------------ frames in flight

\* Camera onFrame: await hands.send({ image }) starts while the camera runs and
\* no send is pending; the tracker will call back with results.
SendFrame ==
    /\ nSteps < MaxSteps
    /\ camera = "started"
    /\ inFlight = << >>
    /\ \E results \in Results : inFlight' = <<results>>
    /\ nSteps' = nSteps + 1
    /\ last' = Event("send", << >>)
    /\ UNCHANGED <<gesture, rendered, pattern, drawing, tracker>>

\* The tracker calls the function given to hands.onResults with the results
\* of the pending send.  The function reads no flag of the effect that
\* registered it: it runs the same whether or not that effect was cleaned up.
DeliverResults ==
    /\ nSteps < MaxSteps
    /\ inFlight /= << >>
    /\ IF inFlight[1] /= NoHandResults THEN HandFrame(inFlight[1][1]) ELSE NoHandFrame
    /\ inFlight' = << >>
    /\ nSteps' = nSteps + 1
    /\ last' = Event("frame", inFlight[1])
    /\ UNCHANGED <<rendered, pattern, drawing, tracker>>

\* hands.close() was called while a send was pending: the library may also
\* end the send without calling back.
DropResults ==
    /\ nSteps < MaxSteps
    /\ inFlight /= << >>
    /\ hands = "closed"
    /\ inFlight' = << >>
    /\ nSteps' = nSteps + 1
    /\ last' = Event("drop", << >>)
    /\ UNCHANGED <<gesture, rendered, pattern, drawing, tracker>>

\* The started tracker with its sends and callbacks apart, the camera button
\* and the render ticks.
FlightNext ==
    /\ \/ SendFrame
       \/ DeliverResults
       \/ DropResults
       \/ ToggleWebcam /\ UNCHANGED inFlight
       \/ animate /\ UNCHANGED inFlight
    /\ TrackLoss
    /\ UNCHANGED <<frameLog, chan, gen, sceneState, autoRotateY, twin>>

SpecFlight == InitTracking /\ [][FlightNext]_vars

\* ------------------------------------------------------------ generation alone

\* The largest particle count generated.
MaxCount == 3

\* The tags generateParticleData is called with: the tags of PATTERNS and 'helix'.
GenPatterns == PATTERNS \cup {"helix"}

\* The drawings extracted: a blank canvas, one drawn pixel, five and seven
\* drawn pixels (corners of the canvas included), in scan order.
Canvases ==
    {<< >>,
     <<[x |-> 150, y |-> 150]>>,
     <<[x |-> 10, y |-> 20], [x |-> 11, y |-> 20], [x |-> 12, y |-> 20],
       [x |-> 200, y |-> 100], [x |-> 299, y |-> 299]>>,
     <<[x |-> 0, y |-> 0], [x |-> 299, y |-> 0], [x |-> 5, y |-> 1],
       [x |-> 6, y |-> 1], [x |-> 0, y |-> 150], [x |-> 150, y |-> 150],
       [x |-> 0, y |-> 299]>>}

InitGen ==
    /\ Mounted
    /\ TrackerOff
    /\ chan = NoChannel
    /\ gen \in {[stage |-> "start", pattern |-> p, count |-> n, drawn |-> d,
                 cache |-> << >>, out |-> << >>, extracted |-> FALSE] :
                    p \in GenPatterns, n \in 1..MaxCount, d \in Canvases}

\* applyDrawing, first half: window.customParticlesCache =
\* extractParticlesFromCanvas(drawCanvasRef.current, count).
Extract ==
    /\ gen.stage = "start"
    /\ \E particles \in extractParticlesFromCanvas(gen.drawn, gen.count) :
           gen' = [gen EXCEPT !.stage = "extracted", !.cache = particles,
                              !.extracted = TRUE]
    /\ UNCHANGED <<gesture, rendered, pattern, drawing, tracker, counters,
                   last, frameLog, handLost, chan, sceneState, shadow>>

\* generateParticleData(pattern, count), with the cache as it is.
Generate ==
    /\ gen.stage \in {"start", "extracted"}
    /\ \E data \in generateParticleData(gen.pattern, gen.count, gen.cache) :
           gen' = [gen EXCEPT !.stage = "generated", !.out = data]
    /\ UNCHANGED <<gesture, rendered, pattern, drawing, tracker, counters,
                   last, frameLog, handLost, chan, sceneState, shadow>>

SpecGen == InitGen /\ [][Extract \/ Generate]_vars

\* ------------------------------------------------------------ the particle buffers

\* Either a generation on its own, or the session without the camera:
\* pattern buttons, the panel timeout (applyDrawing) and render ticks.
InitBuffers ==
    /\ Mounted
    /\ TrackerOff
    /\ chan = NoChannel
    /\ gen \in {NoGen} \cup
               {[stage |-> "start", pattern |-> p, count |-> n, drawn |-> d,
                 cache |-> << >>, out |-> << >>, extracted |-> FALSE] :
                    p \in GenPatterns, n \in 1..MaxCount, d \in Canvases}

SessionStep ==
    /\ gen = NoGen
    /\ \/ animate
       \/ \E p \in PatternInputs : SelectPattern(p)
       \/ ApplyTimer
    /\ TrackLoss
    /\ UNCHANGED <<frameLog, chan, gen, sceneState, shadow>>

SpecBuffers == InitBuffers /\ [][Extract \/ Generate \/ SessionStep]_vars

\* ------------------------------------------------------------ scene lifecycle

\* A cleanup of the scene effect that does not cancel the frame request.
TeardownKeepsFrame ==
    /\ sceneMounted
    /\ nSteps < MaxSteps
    /\ resources' = resources \ {"resizeListener", "animationFrame", "renderer",
                                 "geometry", "material"}
    /\ sceneMounted' = FALSE
    /\ raf' = [pending |-> raf.pending, idSet |-> FALSE]
    /\ nSteps' = nSteps + 1
    /\ last' = Event("teardown", << >>)
    /\ UNCHANGED <<gesture, rendered, pattern, drawing, tracker, frameLog, chan, gen, shadow,
                   attributes>>
    /\ TrackLoss

\* The cleanup the scene effect returns: removeEventListener('resize'),
\* cancelAnimationFrame(animationId), renderer.dispose(), geometry.dispose(),
\* material.dispose() (which leaves the textures of its uniforms alone),
\* removal of the canvas, threeRefs.current = {}.
Teardown ==
    /\ sceneMounted
    /\ nSteps < MaxSteps
    /\ resources' = resources \ {"resizeListener", "animationFrame", "renderer",
                                 "geometry", "material"}
    /\ sceneMounted' = FALSE
    /\ raf' = [pending |-> IF raf.idSet THEN raf.pending - 1 ELSE raf.pending,
               idSet |-> FALSE]
    /\ nSteps' = nSteps + 1
    /\ last' = Event("teardown", << >>)
    /\ UNCHANGED <<gesture, rendered, pattern, drawing, tracker, frameLog, chan, gen, shadow,
                   attributes>>
    /\ TrackLoss

\* The body of the scene effect, run again after a cleanup: a new renderer,
\* geometry for selectedPattern, material, texture, listener and frame
\* request; threeRefs.current gets the gesture defaults.
MountScene ==
    /\ ~sceneMounted
    /\ nSteps < MaxSteps
    /\ resources' = resources \cup SceneResources
    /\ sceneMounted' = TRUE
    /\ raf' = [pending |-> raf.pending + 1, idSet |-> TRUE]
    /\ positions' \in JitterBuffers(PARTICLE_COUNT)
    /\ targetPositions' \in TargetBuffers(selectedPattern, PARTICLE_COUNT,
                                          customParticlesCache)
    /\ \E data \in generateParticleData(selectedPattern, PARTICLE_COUNT,
                                        customParticlesCache) :
           /\ data.targetPositions = targetPositions'
           /\ sizes' = data.sizes
           /\ colors' = data.colors
    /\ currentPattern' = selectedPattern
    /\ rotation' = Vec(0, 0, 0)
    /\ handScaleTarget' = One
    /\ handScaleCurrent' = One
    /\ isHandDetected' = FALSE
    /\ rotationXTarget' = 0
    /\ rotationYTarget' = 0
    /\ nSteps' = nSteps + 1
    /\ last' = Event("mount", << >>)
    /\ TrackLoss
    /\ UNCHANGED <<handDistance, selectedPattern, drawing, tracker, frameLog, chan, gen, shadow>>

\* Mounts and teardowns of the scene, with the session of the mounted scene
\* (ticks, pattern buttons, the panel timeout) in between.
SceneNext ==
    \/ sceneMounted /\ SessionStep
    \/ Teardown
    \/ MountScene

SpecScene == Init /\ [][SceneNext]_vars

\* ------------------------------------------------------------ claims

InRange(s) == minScale <= s /\ s <= maxScale

\* C1: in every reachable state of the session (ticks, frames with or without
\* landmarks, pattern selections, camera start/stop) handScaleTarget and
\* handScaleCurrent both lie in [minScale, maxScale] = [0.2, 3].
C1_ScaleInRange == InRange(handScaleTarget) /\ InRange(handScaleCurrent)

\* C1 witness: a tick has smoothed the scale upward toward a target at maxScale.
C1_Witness ==
    /\ last.kind = "tick"
    /\ handScaleTarget = maxScale
    /\ handScaleCurrent > One

\* C2: for every hand frame with base distance b > 0 and pinch distance d:
\* d/b <= minNorm gives exactly minScale, d/b >= maxNorm gives exactly
\* maxScale, and every resulting target is within [minScale, maxScale].
C2_ScaleMappingEnds ==
    \A k \in DOMAIN frameLog :
        LET e == frameLog[k]
        IN  e.b > 0 =>
              /\ (e.d * One <= minNorm * e.b => e.after = minScale)
              /\ (e.d * One >= maxNorm * e.b => e.after = maxScale)
              /\ InRange(e.after)

\* C2 witness: the log holds a frame below minNorm mapped to minScale, a frame
\* above maxNorm mapped to maxScale and a frame in between mapped in between.
C2_Witness ==
    /\ \E k \in DOMAIN frameLog :
           /\ frameLog[k].b > 0
           /\ frameLog[k].d * One < minNorm * frameLog[k].b
           /\ frameLog[k].after = minScale
    /\ \E k \in DOMAIN frameLog :
           /\ frameLog[k].b > 0
           /\ frameLog[k].d * One > maxNorm * frameLog[k].b
           /\ frameLog[k].after = maxScale
    /\ \E k \in DOMAIN frameLog :
           /\ frameLog[k].after > minScale
           /\ frameLog[k].after < maxScale

\* The (d, b) of Scenario A: ratios 0.05, 0.3, 0.6, 1.2 on a fixed base 0.2.
ScenarioA ==
    <<<<Dec(1, 100), Dec(2, 10)>>, <<Dec(6, 100), Dec(2, 10)>>,
      <<Dec(12, 100), Dec(2, 10)>>, <<Dec(24, 100), Dec(2, 10)>>>>

FedScenarioA ==
    /\ Len(frameLog) = Len(ScenarioA)
    /\ \A k \in DOMAIN frameLog :
           frameLog[k].d = ScenarioA[k][1] /\ frameLog[k].b = ScenarioA[k][2]

\* C3: the scale mapping is monotonic non-decreasing in the pinch ratio: any
\* two hand frames (b > 0) with d1/b1 <= d2/b2 have targets s1 <= s2; and
\* feeding ratios 0.05, 0.3, 0.6, 1.2 gives a non-decreasing trace ending at
\* maxScale.
C3_ScaleMonotonic ==
    /\ \A i, j \in DOMAIN frameLog :
           (/\ frameLog[i].b > 0
            /\ frameLog[j].b > 0
            /\ frameLog[i].d * frameLog[j].b <= frameLog[j].d * frameLog[i].b)
           => frameLog[i].after <= frameLog[j].after
    /\ FedScenarioA =>
           /\ \A k \in 1..(Len(frameLog) - 1) : frameLog[k].after <= frameLog[k + 1].after
           /\ frameLog[Len(frameLog)].after = maxScale

\* C3 witness: Scenario A has been fed, and its trace rises strictly.
C3_Witness ==
    /\ FedScenarioA
    /\ \A k \in 1..(Len(frameLog) - 1) : frameLog[k].after < frameLog[k + 1].after

\* C4 (as claimed): after a frame with a landmark set, whatever its landmark
\* values, isHandDetected is true; after a frame without landmarks, and after
\* the camera is stopped, it is false.
C4_DetectedOnAnyLandmarks ==
    /\ (last.kind = "frame" /\ last.input /= NoHandResults) => isHandDetected
    /\ (last.kind = "frame" /\ last.input = NoHandResults) => ~isHandDetected
    /\ (last.kind = "toggle" /\ ~isWebcamActive) => ~isHandDetected

\* C5: a frame without landmarks leaves handScaleTarget = 1, both rotation
\* targets = 0 and isHandDetected = FALSE, whatever the state before it.
C5_NoHandResets ==
    (last.kind = "frame" /\ last.input = NoHandResults) =>
        /\ handScaleTarget = One
        /\ rotationXTarget = 0
        /\ rotationYTarget = 0
        /\ ~isHandDetected

\* C5 witness: a no-hand frame has just been processed in state HandDetected.
C5_Witness ==
    /\ last.kind = "frame"
    /\ last.input = NoHandResults
    /\ last.wasDetected
    /\ handLost

\* cur -> nxt is one smoothing step toward tgt with factor alpha: the move is
\* alpha * (tgt - cur) to the nearest unit, and the deviation does not grow.
SmoothStep(cur, nxt, tgt, alpha) ==
    /\ 2 * Abs(One * (nxt - cur) - alpha * (tgt - cur)) <= One
    /\ Abs(tgt - nxt) <= Abs(tgt - cur)

\* A render tick taken after a detected hand was lost, no hand since.
IdleTickAfterLoss == handLost /\ last'.kind = "tick" /\ nSteps' = nSteps + 1

FrameStep == last'.kind = "frame" /\ nSteps' = nSteps + 1
TickStep == last'.kind = "tick" /\ nSteps' = nSteps + 1
SelectStep == last'.kind = "select" /\ nSteps' = nSteps + 1

\* C7 (as claimed): a camera frame changes only the gesture targets and
\* isHandDetected; the rendered rotation, scaleCurrent and the position
\* buffer are changed by render ticks only.
C7_OnlyTicksRender ==
    [][/\ FrameStep => UNCHANGED <<rendered, pattern, drawing, tracker>>
       /\ <<rotation, handScaleCurrent, positions>>' /= <<rotation, handScaleCurrent, positions>>
             => TickStep]_vars

\* C7 (amended): a camera frame changes only the gesture targets and
\* isHandDetected; scaleCurrent and the position buffer are changed by render
\* ticks only, the rendered rotation by render ticks and pattern selections.
C7_FrameKeepsRendered ==
    [][/\ FrameStep => UNCHANGED <<rendered, pattern, drawing, tracker>>
       /\ <<handScaleCurrent, positions>>' /= <<handScaleCurrent, positions>> => TickStep
       /\ rotation' /= rotation => (TickStep \/ SelectStep)]_vars

\* C7 witness: a first-detection frame has set the targets while the cloud is
\* rendered rotated and scaled away from them.
C7_Witness ==
    /\ last.kind = "frame"
    /\ last.input /= NoHandResults
    /\ ~last.wasDetected
    /\ isHandDetected
    /\ rotation.y > 0
    /\ rotationYTarget /= rotation.y
    /\ handScaleTarget /= handScaleCurrent

\* A frame with landmarks processed in state HandDetected (not a first detection).
SteadyFrame ==
    /\ last.kind = "frame"
    /\ last.input /= NoHandResults
    /\ last.wasDetected

\* C8 (as claimed): after every frame with landmarks that is not a first
\* detection, rotationYTarget = nx * maxRotY and rotationXTarget = -ny * maxRotX.
C8_TargetsAreDirect ==
    SteadyFrame =>
        /\ rotationYTarget = NewRotY(last.input[1])
        /\ rotationXTarget = NewRotX(last.input[1])

\* C8 (amended): a frame with landmarks and b > 0 that is not a first detection
\* moves each rotation target one smoothing step (0.2) from its previous value
\* toward nx * maxRotY, resp. -ny * maxRotX; with b = 0 the targets are kept.
C8_TargetsSmoothed ==
    [][(FrameStep /\ last'.input /= NoHandResults /\ isHandDetected) =>
          IF BaseDist(last'.input[1]) > 0
          THEN /\ SmoothStep(rotationYTarget, rotationYTarget',
                             NewRotY(last'.input[1]), Dec(2, 10))
               /\ SmoothStep(rotationXTarget, rotationXTarget',
                             NewRotX(last'.input[1]), Dec(2, 10))
          ELSE UNCHANGED <<rotationXTarget, rotationYTarget>>]_vars

\* C8 witness: a steady frame has left a rotation target short of the direct mapping.
C8_Witness ==
    /\ SteadyFrame
    /\ BaseDist(last.input[1]) > 0
    /\ rotationYTarget /= 0
    /\ rotationYTarget /= NewRotY(last.input[1])

\* C9: a hand frame whose base distance is 0 is processed without a scale
\* update: handScaleTarget keeps the value it had before the frame.
C9_ZeroBaseKeepsScale ==
    \A k \in DOMAIN frameLog :
        frameLog[k].b = 0 => frameLog[k].after = frameLog[k].before

\* C9 witness: a zero-base frame was processed while the target was away from rest.
C9_Witness ==
    \E k \in DOMAIN frameLog :
        /\ frameLog[k].b = 0
        /\ frameLog[k].before /= One
        /\ frameLog[k].after = frameLog[k].before

Dev(c) == Abs(c.target - c.current)

LerpStep == chan'.ticks = chan.ticks + 1

\* Scenario C: current = 0, target = 5, alpha = 0.1, after 100 ticks.
ScenarioC(c) ==
    c.start = 0 /\ c.target = 5 * One /\ c.alpha = Dec(1, 10) /\ c.ticks = 100

C11_BufferLengths ==
    /\ gen.stage = "generated" =>
          /\ Len(gen.out.positions) = 3 * gen.count
          /\ Len(gen.out.targetPositions) = 3 * gen.count
          /\ Len(gen.out.colors) = 3 * gen.count
          /\ Len(gen.out.sizes) = gen.count
    /\ Len(positions) = 3 * PARTICLE_COUNT
    /\ Len(targetPositions) = 3 * PARTICLE_COUNT

\* C11 witness: the largest count was generated for a tag outside PATTERNS
\* from an extracted drawing.
C11_Witness ==
    /\ gen.stage = "generated"
    /\ gen.count = MaxCount
    /\ gen.pattern = "helix"
    /\ gen.cache /= << >>
    /\ Len(gen.out.targetPositions) = 3 * MaxCount

\* The Stop Camera button is pressed: isWebcamActive becomes false.
StopStep == last'.kind = "toggle" /\ nSteps' = nSteps + 1 /\ isWebcamActive /\ ~isWebcamActive'

\* C12: stopping the gesture feature stops a started camera and closes an open
\* tracker, resets handScaleTarget to 1, the rotation targets to 0 and
\* isHandDetected to false, and leaves handScaleCurrent, the rendered rotation
\* and the particle positions as they were.
C12_StopResetsTargetsOnly ==
    [][StopStep =>
          /\ camera = "started" => camera' = "stopped"
          /\ hands = "open" => hands' = "closed"
          /\ camera' /= "started" /\ hands' /= "open" /\ ~mediaPipeRefs'
          /\ handScaleTarget' = One
          /\ rotationXTarget' = 0 /\ rotationYTarget' = 0
          /\ ~isHandDetected'
          /\ UNCHANGED <<handScaleCurrent, handDistance, rotation, positions>>]_vars

\* C12 witness: the camera was stopped while a hand was detected and the cloud
\* was rendered scaled and rotated away from rest.
C12_Witness ==
    /\ last.kind = "toggle"
    /\ ~isWebcamActive
    /\ last.wasDetected
    /\ camera = "stopped"
    /\ hands = "closed"
    /\ handScaleTarget = One
    /\ handScaleCurrent /= One
    /\ rotation.x /= 0

\* C13 (as claimed): the tracker and the camera run only in states where the
\* scripts loaded and gesture control is enabled, and the construction of the
\* tracker is never attempted without the library; once loading failed the
\* tracker is never started, the gesture targets stay at rest, and the
\* component stays mounted (ticks, pattern and colour changes keep working).
C13_TrackerNeedsLibrary ==
    /\ (camera = "started" \/ hands = "open") =>
          (scripts = "loaded" /\ isWebcamActive /\ isMediaPipeReady)
    /\ hands /= "threw"
    /\ scripts = "failed" =>
          /\ camera = "none" /\ hands = "none"
          /\ handScaleTarget = One
          /\ rotationXTarget = 0 /\ rotationYTarget = 0
          /\ ~isHandDetected

\* C14: extraction from a canvas without a drawn pixel returns exactly count
\* points near the origin (|x|, |y| <= 0.1, |z| <= 0.05), and generating
\* 'custom' from them yields 3 * count target coordinates, each the cached
\* coordinate times the custom scale 4 (not the fallback sphere).
C14_EmptyDrawingDefaults ==
    (gen.stage /= "none" /\ gen.extracted /\ gen.drawn = << >>) =>
        /\ Len(gen.cache) = gen.count
        /\ \A k \in DOMAIN gen.cache :
              /\ Abs(gen.cache[k].x) <= Dec(1, 10)
              /\ Abs(gen.cache[k].y) <= Dec(1, 10)
              /\ Abs(gen.cache[k].z) <= Dec(5, 100)
        /\ (gen.stage = "generated" /\ gen.pattern = "custom") =>
              /\ Len(gen.out.targetPositions) = 3 * gen.count
              /\ \A k \in 1..gen.count :
                    /\ gen.out.targetPositions[3 * k - 2] = 4 * gen.cache[k].x
                    /\ gen.out.targetPositions[3 * k - 1] = 4 * gen.cache[k].y
                    /\ gen.out.targetPositions[3 * k] = 4 * gen.cache[k].z

\* C14 witness: 'custom' was generated for the largest count from the default
\* cluster of a blank canvas.
C14_Witness ==
    /\ gen.stage = "generated"
    /\ gen.extracted
    /\ gen.drawn = << >>
    /\ gen.pattern = "custom"
    /\ gen.count = MaxCount
    /\ Len(gen.cache) = MaxCount
    /\ gen.out.targetPositions[1] = -Dec(4, 10)

\* C15 (as claimed): after the teardown of the scene nothing the scene effect
\* acquired (renderer, geometry, material, particle texture, resize listener,
\* animation-frame request) remains unreleased.
C15_TeardownReleasesAll == ~sceneMounted => resources = {}

\* C16 (as claimed): every one of the eight enumerated tags (sphere, cube,
\* torus, helix, heart, wave, galaxy, custom) is generated by a case of its
\* own; none of them is generated by the default branch of the switch.
C16_EveryTagHasOwnRule ==
    (/\ gen.stage = "generated"
     /\ gen.pattern \in {"sphere", "cube", "torus", "helix",
                         "heart", "wave", "galaxy", "custom"}) =>
        /\ PatternRule(gen.pattern) = gen.pattern
        /\ PatternRule(gen.pattern) /= "default"

\* C17 (as claimed): the rotation about Y accumulated by idle render ticks
\* wraps mod 2 * PI: it is in [0, 2 * PI) in every reachable state.
C17_AutoRotationWraps == 0 <= rotation.y /\ rotation.y < 2 * PI

\* The radius of a generated point.
Radius(pos) == hypot(pos.x, pos.y, pos.z)

\* C18: every sphere particle has a radius in [0, 1.07 * scale] (scale = 3):
\* a shell particle is in [0.9 * scale, 1.0 * scale] before the glow, the glow
\* multiplies that by at least 1.02 and at most 1.07, and an interior
\* particle is in [0, 0.9 * scale].
C18_SphereRadius ==
    gen.stage = "point" =>
        LET pt == gen.point
            r == Radius(pt.pos)
            scale == 3 * One
        IN  /\ 0 <= r /\ r <= Mul(Dec(107, 100), scale)
            /\ pt.onShell <=> gen.draws.edge < Dec(7, 10)
            /\ pt.onShell =>
                  /\ Mul(Dec(9, 10), scale) <= pt.base /\ pt.base <= scale
                  /\ pt.glowed => /\ Mul(pt.base, Dec(102, 100)) <= r
                                  /\ r <= Mul(pt.base, Dec(107, 100))
                  /\ ~pt.glowed => r = pt.base
            /\ ~pt.onShell => 0 <= r /\ r <= Mul(Dec(9, 10), scale)

\* C18 witness: a shell particle with the largest shell and glow draws was
\* generated, and its radius is above the shell.
C18_Witness ==
    /\ gen.stage = "point"
    /\ gen.point.onShell
    /\ gen.point.glowed
    /\ gen.draws.shell = One - 1
    /\ gen.draws.glow = One - 1
    /\ Radius(gen.point.pos) > 3 * One

\* C19: in one render tick handScaleCurrent is smoothed first (factor 0.12),
\* then every particle coordinate moves (factor 0.08) toward its pattern
\* target times the handScaleCurrent just computed; the tick leaves
\* handScaleTarget and the pattern target buffer as they were.
C19_ScaleThenPositions ==
    [][TickStep =>
          /\ handScaleCurrent' = lerp(handScaleCurrent, handScaleTarget, Dec(12, 100))
          /\ \A k \in DOMAIN positions :
                positions'[k] = lerp(positions[k],
                                     Mul(targetPositions[k], handScaleCurrent'),
                                     Dec(8, 100))
          /\ DOMAIN positions' = DOMAIN positions
          /\ UNCHANGED <<handScaleTarget, targetPositions>>]_vars

\* C19 witness: a tick ran while the scale was on its way to a hand's target
\* and the particles were on their way to the scaled pattern.
C19_Witness ==
    /\ last.kind = "tick"
    /\ isHandDetected
    /\ handScaleCurrent /= One
    /\ handScaleCurrent /= handScaleTarget
    /\ \E k \in DOMAIN positions :
          /\ targetPositions[k] /= 0
          /\ positions[k] /= Mul(targetPositions[k], handScaleCurrent)
          /\ Abs(positions[k]) > Dec(1, 10)

\* A camera frame with landmarks is delivered.
HandFrameStep == FrameStep /\ last'.input /= NoHandResults

\* C20 (as claimed): a hand frame that arrives while no hand is detected
\* starts the rotation targets at the rendered rotation and moves them 0.05 of
\* the way to the new angles, and a hand is detected from then on, so that
\* only that one frame is slow; a hand frame that arrives while a hand is
\* detected moves the targets 0.2 of the way from their previous values.
C20_FirstFrameSlowOnce ==
    [][HandFrameStep =>
          LET lm == last'.input[1]
          IN  IF ~isHandDetected
              THEN /\ rotationXTarget' = lerp(rotation.x, NewRotX(lm), Dec(5, 100))
                   /\ rotationYTarget' = lerp(rotation.y, NewRotY(lm), Dec(5, 100))
                   /\ isHandDetected'
              ELSE /\ rotationXTarget' = lerp(rotationXTarget, NewRotX(lm), Dec(2, 10))
                   /\ rotationYTarget' = lerp(rotationYTarget, NewRotY(lm), Dec(2, 10))
                   /\ isHandDetected']_vars

\* A render tick taken while no hand is detected.
IdleTickStep == TickStep /\ ~isHandDetected

C22_IdleTiltSmoothed ==
    [][IdleTickStep =>
          LET tiltX == BaseTiltX(currentPattern)
              tiltZ == BaseTiltZ(currentPattern)
          IN  /\ IF currentPattern \in {"torus", "galaxy"}
                 THEN tiltX /= 0 /\ tiltZ /= 0
                 ELSE tiltX = 0 /\ tiltZ = 0
              /\ SmoothStep(rotation.x, rotation.x', tiltX, Dec(1, 10))
              /\ SmoothStep(rotation.z, rotation.z', tiltZ, Dec(1, 10))
              /\ rotation.x' = tiltX => rotation.x = tiltX
              /\ rotation.z' = tiltZ => rotation.z = tiltZ]_vars

\* C22 witness: an idle tick tilted the galaxy part of the way to its tilt.
C22_Witness ==
    /\ last.kind = "tick"
    /\ ~isHandDetected
    /\ currentPattern = "galaxy"
    /\ 0 < rotation.x /\ rotation.x < BaseTiltX("galaxy")
    /\ 0 < rotation.z /\ rotation.z < BaseTiltZ("galaxy")

\* Both runs process the same frame: landmarks with b > 0, a hand detected
\* before it in both runs.
SameSteadyFrame ==
    /\ FrameStep
    /\ last'.input /= NoHandResults
    /\ twin'.input = last'.input
    /\ BaseDist(last'.input[1]) > 0
    /\ isHandDetected /\ twin.isHandDetected

\* C23 (as claimed): two runs with different earlier frames that process the
\* same steady frame have the same scale target and the same rotation
\* targets after it.
C23_LastSampleOnly ==
    [][SameSteadyFrame =>
          /\ handScaleTarget' = twin'.handScaleTarget
          /\ rotationXTarget' = twin'.rotationXTarget
          /\ rotationYTarget' = twin'.rotationYTarget]_vars

\* C23 (amended): after the same steady frame the two runs have the same scale
\* target, the direct mapping of that frame; each run's rotation target is its
\* own previous target moved 0.2 of the way to the frame's angle, so the runs
\* differ after the frame by 0.8 of what they differed before it (to the
\* rounding), and runs that got the same frames all along agree on every target.
C23_ScaleFromLastSample ==
    [][/\ SameSteadyFrame =>
             LET lm == last'.input[1]
             IN  /\ handScaleTarget' = twin'.handScaleTarget
                 /\ handScaleTarget' = ScaleMapping(PinchDist(lm), BaseDist(lm))
                 /\ rotationXTarget' = lerp(rotationXTarget, NewRotX(lm), Dec(2, 10))
                 /\ rotationYTarget' = lerp(rotationYTarget, NewRotY(lm), Dec(2, 10))
                 /\ twin'.rotationXTarget = lerp(twin.rotationXTarget, NewRotX(lm), Dec(2, 10))
                 /\ twin'.rotationYTarget = lerp(twin.rotationYTarget, NewRotY(lm), Dec(2, 10))
                 /\ Abs(rotationYTarget' - twin'.rotationYTarget)
                       <= Abs(rotationYTarget - twin.rotationYTarget)
                 /\ Abs(5 * (rotationYTarget' - twin'.rotationYTarget)
                        - 4 * (rotationYTarget - twin.rotationYTarget)) <= 5
       /\ twin'.same =>
             /\ handScaleTarget' = twin'.handScaleTarget
             /\ isHandDetected' = twin'.isHandDetected
             /\ rotationXTarget' = twin'.rotationXTarget
             /\ rotationYTarget' = twin'.rotationYTarget]_vars

\* C23 witness: the two runs processed the same steady frame after different
\* earlier frames; their scale targets agree and their rotation targets differ.
C23_Witness ==
    /\ last.kind = "frame"
    /\ last.input /= NoHandResults
    /\ last.wasDetected
    /\ twin.input = last.input
    /\ ~twin.same
    /\ BaseDist(last.input[1]) > 0
    /\ handScaleTarget = twin.handScaleTarget
    /\ rotationYTarget /= twin.rotationYTarget

\* The smoothing step or idle increment a render tick applies to the rotation.
TickMovesRotation ==
    IF isHandDetected
    THEN /\ SmoothStep(rotation.x, rotation.x', rotationXTarget, Dec(1, 10))
         /\ SmoothStep(rotation.y, rotation.y', rotationYTarget, Dec(1, 10))
         /\ SmoothStep(rotation.z, rotation.z', 0, Dec(1, 10))
    ELSE /\ SmoothStep(rotation.x, rotation.x', BaseTiltX(currentPattern), Dec(1, 10))
         /\ rotation.y' = rotation.y + Dec(1, 1000)
         /\ SmoothStep(rotation.z, rotation.z', BaseTiltZ(currentPattern), Dec(1, 10))

\* C24 (as claimed): whatever the event (tick, camera frame, pattern switch,
\* gesture start or stop), a rotation angle changes only in a render tick, by
\* a smoothing step or by the idle increment; no event assigns an angle.
C24_NoDirectAssignment ==
    [][rotation' /= rotation => (TickStep /\ TickMovesRotation)]_vars

\* C24 (amended): a render tick moves each angle by a smoothing step or by the
\* idle increment; a switch to a pattern other than custom assigns 0 to the
\* rendered X and Y rotation and leaves Z; a switch to custom and every other
\* event (camera frame, camera button, script load, panel timeout) leave the
\* rotation as it is.
C24_RotationChanges ==
    [][/\ TickStep => TickMovesRotation
       /\ SelectStep =>
             IF selectedPattern' = "custom"
             THEN rotation' = rotation
             ELSE rotation' = [x |-> 0, y |-> 0, z |-> rotation.z]
       /\ ~(TickStep \/ SelectStep) => rotation' = rotation]_vars

\* C24 witness: a switch to a pattern other than custom put a turned and
\* tilted cloud back to X = Y = 0 in one step, the Z tilt kept.
C24_Witness ==
    /\ last.kind = "select"
    /\ last.input /= "custom"
    /\ rotation.x = 0 /\ rotation.y = 0
    /\ rotation.z /= 0
    /\ handScaleCurrent /= One

\* C25 (as claimed): a pattern switch replaces the pattern target buffer and
\* currentPattern and nothing else of the scene: positions, sizes, colors,
\* the scale, the gesture targets, the rendered rotation and the drawing
\* panel are as before the switch.
C25_SwitchReplacesTargetsOnly ==
    [][SelectStep =>
          /\ currentPattern' = last'.input
          /\ UNCHANGED <<positions, sizes, colors, handScaleCurrent, handScaleTarget,
                         isHandDetected, rotation, drawing>>]_vars

\* C25 (amended): a pattern switch sets currentPattern and leaves positions,
\* sizes, colors, handScaleCurrent, handScaleTarget, the rotation targets and
\* isHandDetected as they were.  A switch to a pattern other than custom
\* replaces the target buffer by a generation of that pattern and sets the
\* rendered X and Y rotation to 0.  A switch to custom opens the drawing
\* panel and keeps the rotation; it replaces the target buffer only when the
\* panel was already open with a drawing cached, and otherwise keeps the
\* targets of the pattern before.
C25_SwitchKeepsParticles ==
    [][SelectStep =>
          /\ currentPattern' = last'.input
          /\ selectedPattern' = last'.input
          /\ UNCHANGED <<positions, sizes, colors, handScaleCurrent, handScaleTarget,
                         rotationXTarget, rotationYTarget, isHandDetected>>
          /\ IF last'.input = "custom"
             THEN /\ showDrawPanel'
                  /\ rotation' = rotation
                  /\ IF showDrawPanel /\ customParticlesCache /= << >>
                     THEN targetPositions' \in
                              TargetBuffers("custom", PARTICLE_COUNT, customParticlesCache)
                     ELSE targetPositions' = targetPositions
             ELSE /\ targetPositions' \in
                         TargetBuffers(last'.input, PARTICLE_COUNT, customParticlesCache)
                  /\ rotation' = [x |-> 0, y |-> 0, z |-> rotation.z]
                  /\ UNCHANGED drawing]_vars

\* C25 witness: the pattern was switched while the particles were on their way
\* and the scale was driven by a hand; the particles are not on the new
\* targets.
C25_Witness ==
    /\ last.kind = "select"
    /\ last.input /= "custom"
    /\ last.wasDetected
    /\ isHandDetected
    /\ handScaleCurrent /= One
    /\ handScaleTarget /= One
    /\ positions /= targetPositions
    /\ \E k \in DOMAIN positions : Abs(positions[k]) > Dec(1, 10)

\* The sampling loop of extractParticlesFromCanvas, run as written: the
\* indices i it reads, from i with n particles pushed so far
\* (for (i = 0; i < L && particles.length < count; i += step)).
RECURSIVE StrideIndices(_, _, _, _, _)
StrideIndices(i, n, step, L, count) ==
    IF i < L /\ n < count
    THEN <<i>> \o StrideIndices(i + step, n + 1, step, L, count)
    ELSE << >>

\* C26: from L >= 1 drawn pixels extraction returns exactly count particles;
\* the sampling loop reads the indices i * step (step = max(1, floor(L /
\* count))), each below L, and pushes at most count particles, each the
\* pixel it read; the particles after them come from the random fill, which
\* runs only when fewer than count were sampled, and are drawn pixels too;
\* every x and y is in [-1, 1].
C26_ExtractionCount ==
    (gen.stage = "extracted" /\ gen.drawn /= << >>) =>
        LET L == Len(gen.drawn)
            step == Max(1, L \div gen.count)
            idx == StrideIndices(0, 0, step, L, gen.count)
        IN  /\ Len(gen.cache) = gen.count
            /\ Len(idx) <= gen.count
            /\ Len(idx) >= 1
            /\ \A k \in DOMAIN idx :
                  /\ idx[k] = (k - 1) * step
                  /\ idx[k] < L
                  /\ \E r \in RandomDraws :
                        gen.cache[k] = PixelPoint(gen.drawn[idx[k] + 1], r)
            /\ \A k \in (Len(idx) + 1)..gen.count :
                  \E j \in 1..L, r \in RandomDraws :
                      gen.cache[k] = PixelPoint(gen.drawn[j], r)
            /\ \A k \in DOMAIN gen.cache :
                  /\ -One <= gen.cache[k].x /\ gen.cache[k].x <= One
                  /\ -One <= gen.cache[k].y /\ gen.cache[k].y <= One

\* C26 witness: more particles than drawn pixels were asked for, so the fill
\* ran after the one sample.
C26_Witness ==
    /\ gen.stage = "extracted"
    /\ Len(gen.drawn) = 1
    /\ gen.count >= 3
    /\ Len(gen.cache) = gen.count

\* A second case of C26: a stride above 1 that does not divide L, the loop
\* stopped by the count, a sampled particle on the edge x = -1, y = 1.
C26_StrideCase ==
    /\ gen.stage = "extracted"
    /\ Len(gen.drawn) = 7
    /\ gen.count = 3
    /\ gen.cache[1].x = -One /\ gen.cache[1].y = One
    /\ gen.cache[3].y = 0

\* C27 (as claimed): whatever ticks and frames came before, the rotation
\* targets are within the caps of the mapping: |rotationYTarget| <= PI / 4
\* and |rotationXTarget| <= PI / 6 (every landmark 9 fed has x, y in [0, 1]).
C27_TargetsWithinCaps ==
    /\ Abs(rotationYTarget) <= RoundDiv(PI, 4)
    /\ Abs(rotationXTarget) <= RoundDiv(PI, 6)

\* C28 (as claimed): while the gesture feature is stopped no callback changes
\* the gesture state: isHandDetected is false, handScaleTarget is 1 and the
\* rotation targets are 0 until the feature is started again.
C28_StoppedStaysAtRest ==
    ~isWebcamActive =>
        /\ ~isHandDetected
        /\ handScaleTarget = One
        /\ rotationXTarget = 0
        /\ rotationYTarget = 0

\* C29: through any mounts and teardowns of the scene (the mount, cleanup,
\* mount of React.StrictMode included) at most one animation-frame request is
\* pending, and none is pending while the scene is torn down, so no render
\* tick is called back against a torn-down scene; while the scene is mounted
\* the one pending request is the one threeRefs.current.animationId names.
C29_OneFrameLoop ==
    /\ raf.pending <= 1
    /\ ~sceneMounted => raf.pending = 0 /\ ~raf.idSet
    /\ sceneMounted => raf.pending = 1 /\ raf.idSet

\* C29 witness: the scene was mounted, ticked, torn down and mounted again.
C29_Witness ==
    /\ sceneMounted
    /\ last.kind = "mount"
    /\ nSteps >= 3
    /\ raf.pending = 1

\* C30 (as claimed): after every pattern selection, custom without a cached
\* drawing included, the target buffer holds a generation of currentPattern.
C30_TagMatchesTargets ==
    last.kind = "select" =>
        targetPositions \in
            TargetBuffers(currentPattern, PARTICLE_COUNT, customParticlesCache)

====
